---- MODULE Spec2Model ----
(***************************************************************************)
(* State-machine model of the Inbox Review UI component (function App).    *)
(* Two variants of the component are modelled: the later one               *)
(* (src/src/App.tsx) and the earlier one (src/unnamed/part_000).           *)
(*                                                                         *)
(* The component's state is the set of useState cells.  Every async        *)
(* handler runs synchronously up to its first await; the awaited fetch is  *)
(* an element of the bag `pending`, carrying the values the handler's      *)
(* closure captured when it was invoked.  A request resolves at any later  *)
(* moment, in any order, and the handler's continuation then runs to its   *)
(* next await or to its end as one step.                                   *)
(***************************************************************************)
EXTENDS Integers, Sequences, FiniteSets, Bags, TLC

VARIABLES
    variant,          \* which source file is running: "later" or "earlier"
    rawText,          \* useState("")            text area content
    emails,           \* useState<EmailItem[]>([])
    loading,          \* useState(false)
    error,            \* useState<string | null>(null)
    modalOpen,        \* useState(false)
    approveStatus,    \* useState<string | null>(null)
    modalDraft,       \* useState("")
    modalEmailId,     \* useState<number | null>(null)
    modalLoading,     \* useState(false)
    followUp,         \* useState<FollowUp | null>(null)
    sentLog,          \* useState<SentItem[]>([])
    sentLogOpen,      \* useState(false)
    sentLogLoading,   \* useState(false)
    sentJustNow,      \* useState(false)
    lastAnalyzedText, \* useState("")  (later variant only)
    pending,          \* bag of fetches in flight, each with its handler's closure
    timers,           \* number of scheduled setTimeout(() => setModalOpen(false), 800)
    unhandled,        \* TRUE once an exception has escaped a handler
    approved          \* history: the email ids whose approve request has succeeded

vars == <<variant, rawText, emails, loading, error, modalOpen, approveStatus,
          modalDraft, modalEmailId, modalLoading, followUp, sentLog, sentLogOpen,
          sentLogLoading, sentJustNow, lastAnalyzedText, pending, timers, unhandled,
          approved>>

-----------------------------------------------------------------------------
(* Bounds of the model *)

\* at most this many fetches are in flight at once
MaxPending == 2
\* at most this many close timers are scheduled at once
MaxTimers == 1
\* the texts cleanFormatting is applied to have at most this many characters
MaxLen == 5

-----------------------------------------------------------------------------
(* Values *)

\* null in a string-valued cell (error, approveStatus)
Null == "null"
\* modalEmailId is number | null and any number can be an email id: the cell
\* holds <<>> for null and <<n>> for the number n
NoEmailId == <<>>
\* null in followUp
NoFollowUp == [null |-> TRUE]
\* undefined in emails: what setEmails(data.emails) stores when the body has no
\* emails; it is no list, and the render that follows throws on emails.filter
UndefinedEmails == <<[undefined |-> TRUE]>>
\* undefined in rawText: what setRawText(data.raw_text) stores when the body has
\* no raw_text; it is no text, and a method call on it throws
UndefinedText == <<"undefined">>

Variants == {"later", "earlier"}

\* Texts are sequences of characters.  A character is a one-character string;
\* one that has no escape in a TLA+ string is written as the name of its code
\* point ("U+00A0").

\* what String.prototype.trim removes: WhiteSpace (tab, vertical tab, form feed,
\* U+FEFF and the space separators) and LineTerminator (line feed, carriage
\* return, U+2028, U+2029)
WhitespaceChars ==
    {" ", "\t", "\n", "\r", "\f", "U+000B", "U+00A0", "U+FEFF", "U+2028", "U+2029",
     "U+1680", "U+2000", "U+2001", "U+2002", "U+2003", "U+2004", "U+2005", "U+2006",
     "U+2007", "U+2008", "U+2009", "U+200A", "U+202F", "U+205F", "U+3000"}

RECURSIVE TrimStart(_)
TrimStart(s) ==
    IF s = <<>> THEN <<>>
    ELSE IF Head(s) \in WhitespaceChars THEN TrimStart(Tail(s))
    ELSE s

RECURSIVE TrimEnd(_)
TrimEnd(s) ==
    IF s = <<>> THEN <<>>
    ELSE IF s[Len(s)] \in WhitespaceChars THEN TrimEnd(SubSeq(s, 1, Len(s) - 1))
    ELSE s

\* String.prototype.trim
Trim(s) == TrimEnd(TrimStart(s))

\* length of the maximal prefix of s made of characters of cs
RECURSIVE RunLength(_, _)
RunLength(s, cs) ==
    IF s = <<>> \/ Head(s) \notin cs THEN 0
    ELSE 1 + RunLength(Tail(s), cs)

\* s.replace(/c{min}/g, rep), the pattern without its open upper bound: every
\* `min` adjacent characters of cs, scanning left to right, become rep
RECURSIVE ReplaceRuns_pairwise(_, _, _, _)
ReplaceRuns_pairwise(s, cs, min, rep) ==
    IF s = <<>> THEN <<>>
    ELSE IF RunLength(s, cs) >= min
    THEN rep \o ReplaceRuns_pairwise(SubSeq(s, min + 1, Len(s)), cs, min, rep)
    ELSE <<Head(s)>> \o ReplaceRuns_pairwise(Tail(s), cs, min, rep)

\* s.replace(/c{min,}/g, rep) for a character class cs: every maximal run of at
\* least `min` characters of cs, scanning left to right, becomes rep
RECURSIVE ReplaceRuns(_, _, _, _)
ReplaceRuns(s, cs, min, rep) ==
    IF s = <<>> THEN <<>>
    ELSE LET n == RunLength(s, cs) IN
         IF n >= min
         THEN rep \o ReplaceRuns(SubSeq(s, n + 1, Len(s)), cs, min, rep)
         ELSE IF n > 0
         THEN SubSeq(s, 1, n) \o ReplaceRuns(SubSeq(s, n + 1, Len(s)), cs, min, rep)
         ELSE <<Head(s)>> \o ReplaceRuns(Tail(s), cs, min, rep)

\* a transform without the final trim
CleanText_noTrim(s) ==
    ReplaceRuns(ReplaceRuns(s, {"\n"}, 2, <<"\n">>), {" ", "\t"}, 1, <<" ">>)

\* the text transform of cleanFormatting
CleanText(s) ==
    Trim(ReplaceRuns(ReplaceRuns(s, {"\n"}, 2, <<"\n">>), {" ", "\t"}, 1, <<" ">>))

\* the fixed user-facing strings
MsgDemoFailed == "Failed to load demo emails."
MsgAnalyzeFailed == "Failed to analyze emails."
MsgValidation == "Please paste emails or load demo data."
MsgSentFailed == "Failed to load sent log."
MsgClearFailed == "Failed to clear outbox."
MsgSending == "Sending..."
MsgApproveFallback == "Marked as sent (simulated)."
MsgApproveFailed == "Failed to approve/send."
DefaultIntent == "default"
SuggestAction == "suggest_reply_now"

\* "No draft available." and "Failed to get reply suggestion." as texts
NoDraftText ==
    <<"N","o"," ","d","r","a","f","t"," ","a","v","a","i","l","a","b","l","e",".">>
SuggestFailedText ==
    <<"F","a","i","l","e","d"," ","t","o"," ","g","e","t"," ","r","e","p","l","y",
      " ","s","u","g","g","e","s","t","i","o","n",".">>

-----------------------------------------------------------------------------
(* Inputs: what the user types and what the external service answers *)

\* texts the user can put into the text area (onChange)
RawTexts == {<<>>, <<" ">>, <<"a">>}

\* the characters of the texts cleanFormatting is applied to: two letters,
\* space, tab, line feed, carriage return, form feed
Alphabet == {"a", "b", " ", "\t", "\n", "\r", "\f"}
\* every text of at most MaxLen characters
Texts == UNION {[1..k -> Alphabet] : k \in 0..MaxLen}

\* bodies GET /emails/demo answers with
DemoResponses == { [raw_text |-> <<"a">>], [detail |-> "boom"] }

\* texts the user can put into the draft textarea of the modal (onChange)
DraftEdits == {<<>>, <<" ">>, <<"o", "k">>}

\* EmailItem records (the fields the component reads; an optional field that
\* is absent is absent from the record)
E1 == [id |-> 1, urgency |-> "urgent", intent |-> "meeting", actions |-> <<SuggestAction>>]
E2 == [id |-> 2, urgency |-> "urgent", actions |-> <<SuggestAction>>]
E3 == [id |-> 3, urgency |-> "normal", intent |-> "info", actions |-> <<>>]
E4 == [id |-> 4, urgency |-> "low"]
E5 == [id |-> 5, urgency |-> "spam", intent |-> "info"]

FollowUp1 == [normal_emails_count |-> 1, suggested_time |-> "09:00", message |-> "later"]

\* bodies POST /emails/analyze answers with
AnalyzeResponses ==
    { [emails |-> <<E1, E2, E3, E4, E5>>, follow_up |-> FollowUp1],
      [emails |-> <<E2>>],
      [detail |-> "boom"] }

Sent1 == [email_id |-> 1, intent |-> "meeting", draft |-> <<"o", "k">>,
          status |-> "sent", sent_at |-> "t1"]

\* bodies GET /emails/sent answers with
SentResponses == { [items |-> <<Sent1>>], [items |-> <<>>], [status |-> "empty"] }

\* bodies POST /emails/reply/suggest answers with
SuggestResponses ==
    { [draft |-> <<"h", "i">>],
      [draft |-> <<>>, message |-> <<"m">>],
      [status |-> "none"] }

\* a draft the reply service writes for one email: it is made from the email
\* content, urgency and intent of the request, so it differs from email to email
DraftFor(email) ==
    <<"r", "e", " ">> \o (CASE email.id = 1 -> <<"1">>
                            [] email.id = 2 -> <<"2">>
                            [] OTHER -> <<"x">>)

\* bodies POST /emails/reply/suggest answers a request with: the draft for its
\* email, or one of the other bodies
SuggestAnswers(r) == SuggestResponses \cup {[draft |-> DraftFor(r.email)]}

\* bodies POST /emails/reply/approve answers with
ApproveResponses == { [message |-> "Sent."], [status |-> "ok"] }

-----------------------------------------------------------------------------
(* Derived values of a render *)

\* A render that throws unmounts the component (there is no error boundary):
\* from then on no control exists to invoke a handler, and the state updates of
\* the continuations still to run are dropped.
Mounted == emails # UndefinedEmails

\* e.urgency === u filter of the emails list
ByUrgency(list, u) == SelectSeq(list, LAMBDA e : e.urgency = u)
urgentEmails == ByUrgency(emails, "urgent")
\* a normal bucket that takes every email that is neither urgent nor low
normalEmails_catchAll ==
    SelectSeq(emails, LAMBDA e : e.urgency # "urgent" /\ e.urgency # "low")
normalEmails == ByUrgency(emails, "normal")
lowEmails == ByUrgency(emails, "low")

Range(s) == {s[i] : i \in 1..Len(s)}

\* Array.prototype.includes
Includes(list, x) == \E i \in 1..Len(list) : list[i] = x

\* email.actions?.includes("suggest_reply_now")
HasSuggestAction(e) == "actions" \in DOMAIN e /\ Includes(e.actions, SuggestAction)

\* emails.find((e) => e.id === id)?.intent ?? "default": the intent of the
\* first email with that id, "default" when there is none or it has no intent
IntentFor(list, id) ==
    LET hits == {i \in 1..Len(list) : list[i].id = id} IN
    IF hits = {} THEN DefaultIntent
    ELSE LET first == CHOOSE i \in hits : \A j \in hits : i <= j IN
         IF "intent" \in DOMAIN list[first] THEN list[first].intent ELSE DefaultIntent

\* a filter with the comparison inverted: keeps the emails with that id
WithoutId_inverted(list, id) == SelectSeq(list, LAMBDA e : e.id = id)

\* prev.filter((e) => e.id !== id)
WithoutId(list, id) == SelectSeq(list, LAMBDA e : e.id # id)

\* a disabled condition that leaves out sentJustNow
ApproveDisabled_withoutSent == modalLoading \/ Trim(modalDraft) = <<>>

\* disabled={modalLoading || !modalDraft.trim() || sentJustNow}
ApproveDisabled == modalLoading \/ Trim(modalDraft) = <<>> \/ sentJustNow

\* the "Suggest reply" buttons rendered: urgent cards whose actions include it
SuggestButtons == {e \in Range(urgentEmails) : HasSuggestAction(e)}

InFlight == BagCardinality(pending)
Issue(bag, r) == bag (+) SetToBag({r})
Settle(bag, r) == bag (-) SetToBag({r})
Requests(kind) == {r \in BagToSet(pending) : r.kind = kind}

\* outcomes of a fetch whose handler checks res.ok
CheckedOutcomes == {"ok", "notOk", "reject"}
\* outcomes of a fetch whose handler reads the body whatever the status
UncheckedOutcomes == {"ok", "reject"}

-----------------------------------------------------------------------------
(* Initial state: the useState initial values *)

InitState ==
    /\ rawText = <<>>
    /\ emails = <<>>
    /\ loading = FALSE
    /\ error = Null
    /\ modalOpen = FALSE
    /\ approveStatus = Null
    /\ modalDraft = <<>>
    /\ modalEmailId = NoEmailId
    /\ modalLoading = FALSE
    /\ followUp = NoFollowUp
    /\ sentLog = <<>>
    /\ sentLogOpen = FALSE
    /\ sentLogLoading = FALSE
    /\ sentJustNow = FALSE
    /\ lastAnalyzedText = <<>>
    /\ pending = EmptyBag
    /\ timers = 0
    /\ unhandled = FALSE
    /\ approved = {}

Init == variant \in Variants /\ InitState

-----------------------------------------------------------------------------
(* Text area *)

\* onChange of the text area: setRawText(e.target.value)
editRawText(t) ==
    /\ Mounted
    /\ rawText' = t
    /\ UNCHANGED <<variant, approved, emails, loading, error, modalOpen, approveStatus,
                   modalDraft, modalEmailId, modalLoading, followUp, sentLog,
                   sentLogOpen, sentLogLoading, sentJustNow, lastAnalyzedText,
                   pending, timers, unhandled>>

\* the Clean formatting button; rawText.replace throws when rawText is undefined
cleanFormatting ==
    /\ Mounted
    /\ IF rawText = UndefinedText
       THEN unhandled' = TRUE /\ UNCHANGED rawText
       ELSE rawText' = CleanText(rawText) /\ UNCHANGED unhandled
    /\ UNCHANGED <<variant, approved, emails, loading, error, modalOpen, approveStatus,
                   modalDraft, modalEmailId, modalLoading, followUp, sentLog,
                   sentLogOpen, sentLogLoading, sentJustNow, lastAnalyzedText,
                   pending, timers>>

-----------------------------------------------------------------------------
(* loadDemo *)

\* the requests of loadDemo carry the rawText of the render the handler was
\* invoked in

\* later variant, up to the first await: the clear request is sent
loadDemo ==
    /\ Mounted
    /\ variant = "later"
    /\ InFlight < MaxPending
    /\ error' = Null
    /\ pending' = Issue(pending, [kind |-> "demoClear", rawText |-> rawText])
    /\ UNCHANGED <<variant, approved, rawText, emails, loading, modalOpen, approveStatus,
                   modalDraft, modalEmailId, modalLoading, followUp, sentLog,
                   sentLogOpen, sentLogLoading, sentJustNow, lastAnalyzedText,
                   timers, unhandled>>

\* a loadDemo that does not look at the status of its clear response
loadDemo_clearSettledUnchecked(r, outcome) ==
    /\ Mounted
    /\ variant = "later"
    /\ r \in Requests("demoClear")
    /\ IF outcome # "reject"
       THEN /\ sentLog' = <<>>
            /\ pending' = Issue(Settle(pending, r), [kind |-> "demo", rawText |-> r.rawText])
            /\ UNCHANGED error
       ELSE /\ error' = MsgDemoFailed
            /\ pending' = Settle(pending, r)
            /\ UNCHANGED sentLog
    /\ UNCHANGED <<variant, approved, rawText, emails, loading, modalOpen, approveStatus,
                   modalDraft, modalEmailId, modalLoading, followUp,
                   sentLogOpen, sentLogLoading, sentJustNow, lastAnalyzedText,
                   timers, unhandled>>

\* later variant: the clear request of loadDemo has ended
loadDemo_clearSettled(r, outcome) ==
    /\ Mounted
    /\ variant = "later"
    /\ r \in Requests("demoClear")
    /\ IF outcome = "ok"
       THEN \* setSentLog([]); then the demo fetch is sent
            /\ sentLog' = <<>>
            /\ pending' = Issue(Settle(pending, r), [kind |-> "demo", rawText |-> r.rawText])
            /\ UNCHANGED error
       ELSE \* !clearRes.ok throws, a rejection throws: caught
            /\ error' = MsgDemoFailed
            /\ pending' = Settle(pending, r)
            /\ UNCHANGED sentLog
    /\ UNCHANGED <<variant, approved, rawText, emails, loading, modalOpen, approveStatus,
                   modalDraft, modalEmailId, modalLoading, followUp,
                   sentLogOpen, sentLogLoading, sentJustNow, lastAnalyzedText,
                   timers, unhandled>>

\* earlier variant, up to the first await: the demo fetch is sent
loadDemoEarlier ==
    /\ Mounted
    /\ variant = "earlier"
    /\ InFlight < MaxPending
    /\ error' = Null
    /\ pending' = Issue(pending, [kind |-> "demo", rawText |-> rawText])
    /\ UNCHANGED <<variant, approved, rawText, emails, loading, modalOpen, approveStatus,
                   modalDraft, modalEmailId, modalLoading, followUp, sentLog,
                   sentLogOpen, sentLogLoading, sentJustNow, lastAnalyzedText,
                   timers, unhandled>>

\* data.raw_text of a response body
RawTextOf(data) == IF "raw_text" \in DOMAIN data THEN data.raw_text ELSE UndefinedText

\* a demo loader whose catch branch also empties the text area
loadDemo_demoSettledResets(r, outcome, data) ==
    /\ Mounted
    /\ r \in Requests("demo")
    /\ pending' = Settle(pending, r)
    /\ IF outcome = "reject"
       THEN error' = MsgDemoFailed /\ rawText' = <<>>
       ELSE rawText' = RawTextOf(data) /\ UNCHANGED error
    /\ UNCHANGED <<variant, approved, emails, loading, modalOpen, approveStatus,
                   modalDraft, modalEmailId, modalLoading, followUp, sentLog,
                   sentLogOpen, sentLogLoading, sentJustNow, lastAnalyzedText,
                   timers, unhandled>>

\* both variants: the demo fetch has ended (its status is not looked at)
loadDemo_demoSettled(r, outcome, data) ==
    /\ Mounted
    /\ r \in Requests("demo")
    /\ pending' = Settle(pending, r)
    /\ IF outcome = "reject"
       THEN error' = MsgDemoFailed /\ UNCHANGED rawText
       ELSE rawText' = RawTextOf(data) /\ UNCHANGED error
    /\ UNCHANGED <<variant, approved, emails, loading, modalOpen, approveStatus,
                   modalDraft, modalEmailId, modalLoading, followUp, sentLog,
                   sentLogOpen, sentLogLoading, sentJustNow, lastAnalyzedText,
                   timers, unhandled>>

-----------------------------------------------------------------------------
(* analyzeEmails *)

\* the fetch of /emails/analyze with what the invocation's closure holds of the
\* render it was made in: rawText, emails and, in the later variant,
\* lastAnalyzedText
AnalyzeRequest(text, before, last) ==
    [kind |-> "analyze", rawText |-> text, emails |-> before, lastAnalyzedText |-> last]
AnalyzeRequestEarlier(text, before) ==
    [kind |-> "analyze", rawText |-> text, emails |-> before]

\* later variant, up to the first await
analyzeEmails ==
    /\ Mounted
    /\ variant = "later"
    /\ ~loading                       \* disabled={loading}
    /\ InFlight < MaxPending
    /\ loading' = TRUE
    /\ error' = Null
    /\ IF rawText # lastAnalyzedText
       THEN /\ pending' = Issue(pending, [kind |-> "analyzeClear", rawText |-> rawText,
                                          emails |-> emails,
                                          lastAnalyzedText |-> lastAnalyzedText])
            /\ UNCHANGED <<sentLogOpen, sentLog>>
       ELSE /\ sentLogOpen' = FALSE
            /\ sentLog' = <<>>
            /\ pending' = Issue(pending, AnalyzeRequest(rawText, emails, lastAnalyzedText))
    /\ UNCHANGED <<variant, approved, rawText, emails, modalOpen, approveStatus,
                   modalDraft, modalEmailId, modalLoading, followUp,
                   sentLogLoading, sentJustNow, lastAnalyzedText,
                   timers, unhandled>>

\* later variant: the clear request of analyzeEmails resolved with an OK status
analyzeEmails_clearOk(r) ==
    /\ sentLog' = <<>>
    /\ lastAnalyzedText' = r.rawText
    /\ sentLogOpen' = FALSE
    /\ pending' = Issue(Settle(pending, r),
                         AnalyzeRequest(r.rawText, r.emails, r.lastAnalyzedText))
    /\ UNCHANGED <<loading, error, unhandled>>

\* later variant: the clear request of analyzeEmails rejected or was not OK; the
\* await and the throw are outside the try, so the handler's promise rejects
analyzeEmails_clearFailed(r) ==
    /\ unhandled' = TRUE
    /\ pending' = Settle(pending, r)
    /\ UNCHANGED <<loading, error, sentLog, lastAnalyzedText, sentLogOpen>>

\* later variant: the clear request of analyzeEmails has ended
analyzeEmails_clearSettled(r, outcome) ==
    /\ Mounted
    /\ variant = "later"
    /\ r \in Requests("analyzeClear")
    /\ IF outcome = "ok" THEN analyzeEmails_clearOk(r) ELSE analyzeEmails_clearFailed(r)
    /\ UNCHANGED <<variant, approved, rawText, emails, modalOpen, approveStatus,
                   modalDraft, modalEmailId, modalLoading, followUp,
                   sentLogLoading, sentJustNow, timers>>

\* an earlier analyzeEmails whose guard is !rawText instead of !rawText.trim()
analyzeEmailsEarlier_noTrim ==
    /\ Mounted
    /\ variant = "earlier"
    /\ ~loading
    /\ IF rawText = <<>> \/ rawText = UndefinedText
       THEN /\ error' = MsgValidation
            /\ UNCHANGED <<loading, sentLogOpen, sentLog, pending>>
       ELSE /\ InFlight < MaxPending
            /\ loading' = TRUE
            /\ error' = Null
            /\ sentLogOpen' = FALSE
            /\ sentLog' = <<>>
            /\ pending' = Issue(pending, AnalyzeRequestEarlier(rawText, emails))
    /\ UNCHANGED <<variant, approved, rawText, emails, modalOpen, approveStatus,
                   modalDraft, modalEmailId, modalLoading, followUp,
                   sentLogLoading, sentJustNow, lastAnalyzedText,
                   timers, unhandled>>

\* earlier variant, up to the first await
analyzeEmailsEarlier ==
    /\ Mounted
    /\ variant = "earlier"
    /\ ~loading                       \* disabled={loading}
    /\ IF rawText = UndefinedText
       THEN \* rawText.trim() throws: the handler's promise rejects
            /\ unhandled' = TRUE
            /\ UNCHANGED <<error, loading, sentLogOpen, sentLog, pending>>
       ELSE IF Trim(rawText) = <<>>
       THEN /\ error' = MsgValidation
            /\ UNCHANGED <<loading, sentLogOpen, sentLog, pending, unhandled>>
       ELSE /\ InFlight < MaxPending
            /\ loading' = TRUE
            /\ error' = Null
            /\ sentLogOpen' = FALSE
            /\ sentLog' = <<>>
            /\ pending' = Issue(pending, AnalyzeRequestEarlier(rawText, emails))
            /\ UNCHANGED unhandled
    /\ UNCHANGED <<variant, approved, rawText, emails, modalOpen, approveStatus,
                   modalDraft, modalEmailId, modalLoading, followUp,
                   sentLogLoading, sentJustNow, lastAnalyzedText,
                   timers>>

\* try branch of analyzeEmails after the response body was read
analyzeEmails_succeeded(data) ==
    /\ emails' = IF "emails" \in DOMAIN data THEN data.emails ELSE UndefinedEmails
    /\ followUp' = IF "follow_up" \in DOMAIN data THEN data.follow_up ELSE NoFollowUp
    /\ UNCHANGED error

\* a catch branch that also empties the list
analyzeEmails_failedResets ==
    /\ error' = MsgAnalyzeFailed
    /\ emails' = <<>>
    /\ UNCHANGED followUp

\* catch branch of analyzeEmails
analyzeEmails_failed ==
    /\ error' = MsgAnalyzeFailed
    /\ UNCHANGED <<emails, followUp>>

\* both variants: the analyze request has ended (its status is not looked at)
analyzeEmails_settled(r, outcome, data) ==
    /\ Mounted
    /\ r \in Requests("analyze")
    /\ pending' = Settle(pending, r)
    /\ IF outcome = "reject" THEN analyzeEmails_failed ELSE analyzeEmails_succeeded(data)
    /\ loading' = FALSE               \* finally
    /\ UNCHANGED <<variant, approved, rawText, modalOpen, approveStatus,
                   modalDraft, modalEmailId, modalLoading, sentLog,
                   sentLogOpen, sentLogLoading, sentJustNow, lastAnalyzedText,
                   timers, unhandled>>

-----------------------------------------------------------------------------
(* Outbox panel *)

\* loadSentLog up to its await; also the tail of approveAndSend in the later variant
loadSentLog_start(bag) ==
    /\ sentLogLoading' = TRUE
    /\ error' = Null
    /\ pending' = Issue(bag, [kind |-> "sent"])

\* the Outbox button
loadSentLog ==
    /\ Mounted
    /\ ~sentLogLoading                \* disabled={sentLogLoading}
    /\ InFlight < MaxPending
    /\ loadSentLog_start(pending)
    /\ UNCHANGED <<variant, approved, rawText, emails, loading, modalOpen, approveStatus,
                   modalDraft, modalEmailId, modalLoading, followUp, sentLog,
                   sentLogOpen, sentJustNow, lastAnalyzedText, timers, unhandled>>

\* the fetch of /emails/sent has ended (its status is not looked at)
loadSentLog_settled(r, outcome, data) ==
    /\ Mounted
    /\ r \in Requests("sent")
    /\ pending' = Settle(pending, r)
    /\ IF outcome = "reject"
       THEN /\ error' = MsgSentFailed
            /\ UNCHANGED <<sentLog, sentLogOpen>>
       ELSE /\ sentLog' = IF "items" \in DOMAIN data THEN data.items ELSE <<>>
            /\ sentLogOpen' = TRUE
            /\ UNCHANGED error
    /\ sentLogLoading' = FALSE        \* finally
    /\ UNCHANGED <<variant, approved, rawText, emails, loading, modalOpen, approveStatus,
                   modalDraft, modalEmailId, modalLoading, followUp,
                   sentJustNow, lastAnalyzedText, timers, unhandled>>

\* the Close button of the outbox panel
closeSentLog ==
    /\ Mounted
    /\ sentLogOpen
    /\ sentLogOpen' = FALSE
    /\ UNCHANGED <<variant, approved, rawText, emails, loading, error, modalOpen, approveStatus,
                   modalDraft, modalEmailId, modalLoading, followUp, sentLog,
                   sentLogLoading, sentJustNow, lastAnalyzedText,
                   pending, timers, unhandled>>

\* the Clear (demo) button: rendered in the open panel, disabled={sentLog.length === 0}
ClearButtonEnabled == sentLogOpen /\ Len(sentLog) # 0

\* clearSentLog up to its await
clearSentLog_invoked ==
    /\ Mounted
    /\ InFlight < MaxPending
    /\ error' = Null
    /\ sentLogLoading' = TRUE
    /\ sentLogOpen' = FALSE
    /\ pending' = Issue(pending, [kind |-> "clear"])
    /\ UNCHANGED <<variant, approved, rawText, emails, loading, modalOpen, approveStatus,
                   modalDraft, modalEmailId, modalLoading, followUp, sentLog,
                   sentJustNow, lastAnalyzedText, timers, unhandled>>

\* a click on the Clear (demo) button
clearSentLog == ClearButtonEnabled /\ clearSentLog_invoked

\* a clearSentLog whose success leaves the local mirror as it is
clearSentLog_settledKeepsMirror(r, outcome) ==
    /\ Mounted
    /\ r \in Requests("clear")
    /\ pending' = Settle(pending, r)
    /\ IF outcome = "ok"
       THEN UNCHANGED <<sentLog, error>>
       ELSE error' = MsgClearFailed /\ UNCHANGED sentLog
    /\ sentLogLoading' = FALSE
    /\ UNCHANGED <<variant, approved, rawText, emails, loading, modalOpen, approveStatus,
                   modalDraft, modalEmailId, modalLoading, followUp,
                   sentLogOpen, sentJustNow, lastAnalyzedText, timers, unhandled>>

\* the clear request of clearSentLog has ended
clearSentLog_settled(r, outcome) ==
    /\ Mounted
    /\ r \in Requests("clear")
    /\ pending' = Settle(pending, r)
    /\ IF outcome = "ok"
       THEN sentLog' = <<>> /\ UNCHANGED error
       ELSE error' = MsgClearFailed /\ UNCHANGED sentLog
    /\ sentLogLoading' = FALSE        \* finally
    /\ UNCHANGED <<variant, approved, rawText, emails, loading, modalOpen, approveStatus,
                   modalDraft, modalEmailId, modalLoading, followUp,
                   sentLogOpen, sentJustNow, lastAnalyzedText, timers, unhandled>>

-----------------------------------------------------------------------------
(* Reply modal *)

\* a Suggest reply button: suggestReply(email) up to its await
suggestReply(email) ==
    /\ Mounted
    /\ email \in SuggestButtons
    /\ InFlight < MaxPending
    /\ modalOpen' = TRUE
    /\ approveStatus' = Null
    /\ sentJustNow' = FALSE
    /\ modalEmailId' = <<email.id>>
    /\ modalDraft' = <<>>
    /\ modalLoading' = TRUE
    /\ error' = Null
    /\ pending' = Issue(pending, [kind |-> "suggest", email |-> email])
    /\ UNCHANGED <<variant, approved, rawText, emails, loading, followUp, sentLog,
                   sentLogOpen, sentLogLoading, lastAnalyzedText, timers, unhandled>>

\* a choice of draft that takes data.draft whenever the field is there
SuggestedDraft_anyDraft(data) ==
    IF "draft" \in DOMAIN data THEN data.draft
    ELSE IF "message" \in DOMAIN data THEN data.message
    ELSE NoDraftText

\* the draft suggestReply takes from a response body
SuggestedDraft(data) ==
    IF "draft" \in DOMAIN data /\ data.draft # <<>>            \* if (data.draft)
    THEN data.draft
    ELSE IF "message" \in DOMAIN data THEN data.message        \* data.message ??
    ELSE NoDraftText

\* a suggestReply that drops a response when the modal shows another email
suggestReply_settledIgnoresStale(r, outcome, data) ==
    /\ Mounted
    /\ r \in Requests("suggest")
    /\ pending' = Settle(pending, r)
    /\ IF <<r.email.id>> = modalEmailId
       THEN /\ modalDraft' = IF outcome = "reject" THEN SuggestFailedText
                             ELSE SuggestedDraft(data)
            /\ modalLoading' = FALSE
       ELSE UNCHANGED <<modalDraft, modalLoading>>
    /\ UNCHANGED <<variant, approved, rawText, emails, loading, error, modalOpen, approveStatus,
                   modalEmailId, followUp, sentLog, sentLogOpen, sentLogLoading,
                   sentJustNow, lastAnalyzedText, timers, unhandled>>

\* the suggest request has ended (its status is not looked at)
suggestReply_settled(r, outcome, data) ==
    /\ Mounted
    /\ r \in Requests("suggest")
    /\ pending' = Settle(pending, r)
    /\ modalDraft' = IF outcome = "reject" THEN SuggestFailedText ELSE SuggestedDraft(data)
    /\ modalLoading' = FALSE          \* finally
    /\ UNCHANGED <<variant, approved, rawText, emails, loading, error, modalOpen, approveStatus,
                   modalEmailId, followUp, sentLog, sentLogOpen, sentLogLoading,
                   sentJustNow, lastAnalyzedText, timers, unhandled>>

\* onChange of the draft textarea, rendered when the modal is not loading
editModalDraft(d) ==
    /\ Mounted
    /\ modalOpen
    /\ ~modalLoading
    /\ modalDraft' = d
    /\ UNCHANGED <<variant, approved, rawText, emails, loading, error, modalOpen, approveStatus,
                   modalEmailId, modalLoading, followUp, sentLog, sentLogOpen,
                   sentLogLoading, sentJustNow, lastAnalyzedText,
                   pending, timers, unhandled>>

\* the Close button of the modal and a click on its overlay
closeModal ==
    /\ Mounted
    /\ modalOpen
    /\ modalOpen' = FALSE
    /\ UNCHANGED <<variant, approved, rawText, emails, loading, error, approveStatus,
                   modalDraft, modalEmailId, modalLoading, followUp, sentLog,
                   sentLogOpen, sentLogLoading, sentJustNow, lastAnalyzedText,
                   pending, timers, unhandled>>

\* the fetch of /emails/reply/approve with the closure of the invocation
ApproveRequest ==
    [kind |-> "approve", email_id |-> modalEmailId[1],
     intent |-> IntentFor(emails, modalEmailId[1]), draft |-> modalDraft,
     sentLogOpen |-> sentLogOpen]

\* the Approve & send button is rendered in the open modal and not disabled
ApproveClickable == modalOpen /\ ~ApproveDisabled

\* the Approve & send button: approveAndSend up to its await
approveAndSend ==
    /\ Mounted
    /\ ApproveClickable
    /\ IF modalEmailId = NoEmailId
       THEN UNCHANGED <<approveStatus, pending>>        \* return
       ELSE /\ InFlight < MaxPending
            /\ approveStatus' = MsgSending
            /\ pending' = Issue(pending, ApproveRequest)
    /\ UNCHANGED <<variant, approved, rawText, emails, loading, error, modalOpen,
                   modalDraft, modalEmailId, modalLoading, followUp, sentLog,
                   sentLogOpen, sentLogLoading, sentJustNow, lastAnalyzedText,
                   timers, unhandled>>

\* whether approveAndSend goes on to await loadSentLog(): the later variant, with
\* the sentLogOpen of the render the handler was invoked in
RefreshesOutbox(r) == variant = "later" /\ r.sentLogOpen

\* a try branch without setSentJustNow(true)
approveAndSend_succeededNoFlag(r, data) ==
    /\ timers < MaxTimers
    /\ approveStatus' = IF "message" \in DOMAIN data THEN data.message
                        ELSE MsgApproveFallback
    /\ emails' = WithoutId(emails, r.email_id)
    /\ timers' = timers + 1
    /\ approved' = approved \cup {r.email_id}
    /\ pending' = Settle(pending, r)
    /\ UNCHANGED <<sentJustNow, sentLogLoading, error>>

\* try branch of approveAndSend after the response body was read
approveAndSend_succeeded(r, data) ==
    /\ timers < MaxTimers
    /\ approveStatus' = IF "message" \in DOMAIN data THEN data.message
                        ELSE MsgApproveFallback
    /\ emails' = WithoutId(emails, r.email_id)
    /\ timers' = timers + 1
    /\ sentJustNow' = TRUE
    /\ approved' = approved \cup {r.email_id}
    /\ IF RefreshesOutbox(r)
       THEN loadSentLog_start(Settle(pending, r))
       ELSE /\ pending' = Settle(pending, r)
            /\ UNCHANGED <<sentLogLoading, error>>

\* a catch branch that marks the email as sent
approveAndSend_failedMarksSent(r) ==
    /\ approveStatus' = MsgApproveFailed
    /\ sentJustNow' = TRUE
    /\ pending' = Settle(pending, r)
    /\ UNCHANGED <<emails, timers, sentLogLoading, error, approved>>

\* catch branch of approveAndSend
approveAndSend_failed(r) ==
    /\ approveStatus' = MsgApproveFailed
    /\ pending' = Settle(pending, r)
    /\ UNCHANGED <<emails, timers, sentJustNow, sentLogLoading, error, approved>>

\* the approve request has ended (its status is not looked at)
approveAndSend_settled(r, outcome, data) ==
    /\ Mounted
    /\ r \in Requests("approve")
    /\ IF outcome = "reject" THEN approveAndSend_failed(r)
       ELSE approveAndSend_succeeded(r, data)
    /\ UNCHANGED <<variant, rawText, loading, modalOpen, modalDraft, modalEmailId,
                   modalLoading, followUp, sentLog, sentLogOpen,
                   lastAnalyzedText, unhandled>>

\* a request ends after the component was unmounted: the continuation of its
\* handler runs, its state updates are dropped, and what it sends and schedules
\* is sent and scheduled
settledUnmounted(r, outcome) ==
    /\ ~Mounted
    /\ r \in BagToSet(pending)
    /\ outcome \in (IF r.kind \in {"demoClear", "analyzeClear", "clear"}
                    THEN CheckedOutcomes ELSE UncheckedOutcomes)
    /\ LET done == Settle(pending, r) IN
       pending' =
          CASE r.kind = "demoClear" /\ outcome = "ok" ->
                  Issue(done, [kind |-> "demo", rawText |-> r.rawText])
            [] r.kind = "analyzeClear" /\ outcome = "ok" ->
                  Issue(done, AnalyzeRequest(r.rawText, r.emails, r.lastAnalyzedText))
            [] r.kind = "approve" /\ outcome = "ok" /\ RefreshesOutbox(r) ->
                  Issue(done, [kind |-> "sent"])
            [] OTHER -> done
    /\ IF r.kind = "approve" /\ outcome = "ok"
       THEN /\ timers < MaxTimers
            /\ timers' = timers + 1
            /\ approved' = approved \cup {r.email_id}
       ELSE UNCHANGED <<timers, approved>>
    /\ unhandled' = (unhandled \/ (r.kind = "analyzeClear" /\ outcome # "ok"))
    /\ UNCHANGED <<variant, rawText, emails, loading, error, modalOpen, approveStatus,
                   modalDraft, modalEmailId, modalLoading, followUp, sentLog,
                   sentLogOpen, sentLogLoading, sentJustNow, lastAnalyzedText>>

\* a timer set by approveAndSend fires: setModalOpen(false)
closeTimerFires ==
    /\ timers > 0
    /\ timers' = timers - 1
    /\ modalOpen' = IF Mounted THEN FALSE ELSE modalOpen
    /\ UNCHANGED <<variant, approved, rawText, emails, loading, error, approveStatus,
                   modalDraft, modalEmailId, modalLoading, followUp, sentLog,
                   sentLogOpen, sentLogLoading, sentJustNow, lastAnalyzedText,
                   pending, unhandled>>

-----------------------------------------------------------------------------
(* Specification *)

Next ==
    \/ \E t \in RawTexts : editRawText(t)
    \/ cleanFormatting
    \/ loadDemo
    \/ \E r \in BagToSet(pending), o \in CheckedOutcomes : loadDemo_clearSettled(r, o)
    \/ loadDemoEarlier
    \/ \E r \in BagToSet(pending), o \in UncheckedOutcomes, d \in DemoResponses :
          loadDemo_demoSettled(r, o, d)
    \/ analyzeEmails
    \/ \E r \in BagToSet(pending), o \in CheckedOutcomes : analyzeEmails_clearSettled(r, o)
    \/ analyzeEmailsEarlier
    \/ \E r \in BagToSet(pending), o \in UncheckedOutcomes, d \in AnalyzeResponses :
          analyzeEmails_settled(r, o, d)
    \/ loadSentLog
    \/ \E r \in BagToSet(pending), o \in UncheckedOutcomes, d \in SentResponses :
          loadSentLog_settled(r, o, d)
    \/ closeSentLog
    \/ clearSentLog
    \/ \E r \in BagToSet(pending), o \in CheckedOutcomes : clearSentLog_settled(r, o)
    \/ \E e \in Range(emails) : suggestReply(e)
    \/ \E r \in BagToSet(pending), o \in UncheckedOutcomes, d \in SuggestResponses :
          suggestReply_settled(r, o, d)
    \/ \E d \in DraftEdits : editModalDraft(d)
    \/ closeModal
    \/ approveAndSend
    \/ \E r \in BagToSet(pending), o \in UncheckedOutcomes, d \in ApproveResponses :
          approveAndSend_settled(r, o, d)
    \/ closeTimerFires
    \/ \E r \in BagToSet(pending), o \in CheckedOutcomes : settledUnmounted(r, o)

Spec == Init /\ [][Next]_vars

\* the steps of analyzeEmails, in both variants
AnalysisSteps ==
    \/ analyzeEmails
    \/ \E r \in BagToSet(pending), o \in CheckedOutcomes : analyzeEmails_clearSettled(r, o)
    \/ analyzeEmailsEarlier
    \/ \E r \in BagToSet(pending), o \in UncheckedOutcomes, d \in AnalyzeResponses :
          analyzeEmails_settled(r, o, d)

\* The component under a user who works on the page and never opens the reply
\* modal: text area, demo loader, analysis and outbox panel.
NextPage ==
    \/ \E t \in RawTexts : editRawText(t)
    \/ cleanFormatting
    \/ loadDemo
    \/ \E r \in BagToSet(pending), o \in CheckedOutcomes : loadDemo_clearSettled(r, o)
    \/ loadDemoEarlier
    \/ \E r \in BagToSet(pending), o \in UncheckedOutcomes, d \in DemoResponses :
          loadDemo_demoSettled(r, o, d)
    \/ AnalysisSteps
    \/ loadSentLog
    \/ \E r \in BagToSet(pending), o \in UncheckedOutcomes, d \in SentResponses :
          loadSentLog_settled(r, o, d)
    \/ closeSentLog
    \/ clearSentLog
    \/ \E r \in BagToSet(pending), o \in CheckedOutcomes : clearSentLog_settled(r, o)
    \/ \E r \in BagToSet(pending), o \in CheckedOutcomes : settledUnmounted(r, o)

SpecPage == Init /\ [][NextPage]_vars

\* The component under a user who types one text, starts an analysis only
\* while no email is listed, and works in the reply modal; the demo loader and
\* the outbox panel are left alone.
NextModal ==
    \/ editRawText(<<"a">>)
    \/ (emails = <<>> /\ analyzeEmails)
    \/ \E r \in BagToSet(pending), o \in CheckedOutcomes : analyzeEmails_clearSettled(r, o)
    \/ (emails = <<>> /\ analyzeEmailsEarlier)
    \/ \E r \in BagToSet(pending), o \in UncheckedOutcomes, d \in AnalyzeResponses :
          analyzeEmails_settled(r, o, d)
    \/ \E e \in Range(emails) : suggestReply(e)
    \/ \E r \in BagToSet(pending), o \in UncheckedOutcomes, d \in SuggestResponses :
          suggestReply_settled(r, o, d)
    \/ \E d \in DraftEdits : editModalDraft(d)
    \/ closeModal
    \/ approveAndSend
    \/ \E r \in BagToSet(pending), o \in UncheckedOutcomes, d \in ApproveResponses :
          approveAndSend_settled(r, o, d)
    \/ closeTimerFires
    \/ \E r \in BagToSet(pending), o \in CheckedOutcomes : settledUnmounted(r, o)

SpecModal == Init /\ [][NextModal]_vars

\* The component under a user who types one text, analyses it at any time and
\* approves suggested drafts as they come, without editing them; the demo
\* loader and the outbox panel are left alone.
NextReview ==
    \/ editRawText(<<"a">>)
    \/ AnalysisSteps
    \/ \E e \in Range(emails) : suggestReply(e)
    \/ \E r \in BagToSet(pending), o \in UncheckedOutcomes :
          suggestReply_settled(r, o, [draft |-> <<"h", "i">>])
    \/ closeModal
    \/ approveAndSend
    \/ \E r \in BagToSet(pending), o \in UncheckedOutcomes, d \in ApproveResponses :
          approveAndSend_settled(r, o, d)
    \/ closeTimerFires
    \/ \E r \in BagToSet(pending), o \in CheckedOutcomes : settledUnmounted(r, o)

SpecReview == Init /\ [][NextReview]_vars

\* The component under a user who types one text, analyses it at any time and
\* opens and closes the reply modal; the reply service answers a request with the draft
\* for its email or without a draft.
NextSuggest ==
    \/ editRawText(<<"a">>)
    \/ AnalysisSteps
    \/ \E e \in Range(emails) : suggestReply(e)
    \/ \E r \in Requests("suggest"), o \in UncheckedOutcomes :
          \E d \in SuggestAnswers(r) : suggestReply_settled(r, o, d)
    \/ closeModal
    \/ \E r \in BagToSet(pending), o \in CheckedOutcomes : settledUnmounted(r, o)

SpecSuggest == Init /\ [][NextSuggest]_vars

\* The component under a user who types one text, starts an analysis only
\* while no email is listed, opens and closes the outbox panel, and approves
\* suggested drafts without editing them.
NextRefresh ==
    \/ editRawText(<<"a">>)
    \/ (emails = <<>> /\ analyzeEmails)
    \/ \E r \in BagToSet(pending), o \in CheckedOutcomes : analyzeEmails_clearSettled(r, o)
    \/ (emails = <<>> /\ analyzeEmailsEarlier)
    \/ \E r \in BagToSet(pending), o \in UncheckedOutcomes, d \in AnalyzeResponses :
          analyzeEmails_settled(r, o, d)
    \/ loadSentLog
    \/ \E r \in BagToSet(pending), o \in UncheckedOutcomes, d \in SentResponses :
          loadSentLog_settled(r, o, d)
    \/ closeSentLog
    \/ \E e \in Range(emails) : suggestReply(e)
    \/ \E r \in BagToSet(pending), o \in UncheckedOutcomes :
          suggestReply_settled(r, o, [draft |-> <<"h", "i">>])
    \/ closeModal
    \/ approveAndSend
    \/ \E r \in BagToSet(pending), o \in UncheckedOutcomes, d \in ApproveResponses :
          approveAndSend_settled(r, o, d)
    \/ closeTimerFires
    \/ \E r \in BagToSet(pending), o \in CheckedOutcomes : settledUnmounted(r, o)

SpecRefresh == Init /\ [][NextRefresh]_vars

\* cleanFormatting as a function of the text it is applied to: the text area
\* starts with any text and the Clean formatting button is clicked.
InitClean ==
    /\ variant \in Variants
    /\ rawText \in Texts
    /\ emails = <<>> /\ loading = FALSE /\ error = Null
    /\ modalOpen = FALSE /\ approveStatus = Null /\ modalDraft = <<>>
    /\ modalEmailId = NoEmailId /\ modalLoading = FALSE /\ followUp = NoFollowUp
    /\ sentLog = <<>> /\ sentLogOpen = FALSE /\ sentLogLoading = FALSE
    /\ sentJustNow = FALSE /\ lastAnalyzedText = <<>>
    /\ pending = EmptyBag /\ timers = 0 /\ unhandled = FALSE /\ approved = {}

SpecClean == InitClean /\ [][cleanFormatting]_vars

-----------------------------------------------------------------------------
(* Steps at which a handler invocation ends *)

FailedOutcomes == {"notOk", "reject"}

\* analyzeEmails returns or throws
Ends_analyzeEmails ==
    \/ \E r \in Requests("analyze"), o \in UncheckedOutcomes, d \in AnalyzeResponses :
          analyzeEmails_settled(r, o, d)
    \/ \E r \in Requests("analyzeClear"), o \in FailedOutcomes :
          analyzeEmails_clearSettled(r, o)

\* loadSentLog returns
Ends_loadSentLog ==
    \E r \in Requests("sent"), o \in UncheckedOutcomes, d \in SentResponses :
        loadSentLog_settled(r, o, d)

\* clearSentLog returns
Ends_clearSentLog ==
    \E r \in Requests("clear"), o \in CheckedOutcomes : clearSentLog_settled(r, o)

\* suggestReply returns
Ends_suggestReply ==
    \E r \in Requests("suggest"), o \in UncheckedOutcomes, d \in SuggestResponses :
        suggestReply_settled(r, o, d)

-----------------------------------------------------------------------------
(* Claims *)

\* C1: whenever a handler that set a loading flag ends, whatever its requests
\* did, the flag it set is false: loading for analyzeEmails (the later one
\* included, when its preliminary clear request rejects or is not OK),
\* sentLogLoading for loadSentLog and clearSentLog, modalLoading for suggestReply.
C1_FlagClearWhenHandlerEnds ==
    [][ /\ Ends_analyzeEmails => ~loading'
        /\ Ends_loadSentLog => ~sentLogLoading'
        /\ Ends_clearSentLog => ~sentLogLoading'
        /\ Ends_suggestReply => ~modalLoading' ]_vars

\* C3: every request that rejects, or is not OK where the status is checked,
\* ends its handler with the operation's fixed message in the error slot (the
\* draft for suggestReply, approveStatus for approveAndSend), and no exception
\* leaves a handler; the clear request of the later analyzeEmails included.
C3_FailureStoresFixedMessage ==
    [][ /\ \A r \in BagToSet(pending) :
            /\ \A o \in FailedOutcomes :
                  loadDemo_clearSettled(r, o) => error' = MsgDemoFailed
            /\ \A d \in DemoResponses :
                  loadDemo_demoSettled(r, "reject", d) => error' = MsgDemoFailed
            /\ \A o \in FailedOutcomes :
                  analyzeEmails_clearSettled(r, o) => error' = MsgAnalyzeFailed
            /\ \A d \in AnalyzeResponses :
                  analyzeEmails_settled(r, "reject", d) => error' = MsgAnalyzeFailed
            /\ \A d \in SentResponses :
                  loadSentLog_settled(r, "reject", d) => error' = MsgSentFailed
            /\ \A o \in FailedOutcomes :
                  clearSentLog_settled(r, o) => error' = MsgClearFailed
            /\ \A d \in SuggestResponses :
                  suggestReply_settled(r, "reject", d) => modalDraft' = SuggestFailedText
            /\ \A d \in ApproveResponses :
                  approveAndSend_settled(r, "reject", d) => approveStatus' = MsgApproveFailed
        /\ ~unhandled' ]_vars

\* C4: no request failure is fatal: once every request that was sent has
\* ended, none hanging, the Analyze button (disabled while loading) and the
\* Outbox button (disabled while sentLogLoading) are enabled again.  No later
\* step but the end of a request clears these flags, so a flag that is set while
\* nothing is in flight stays set for ever.
C4_ButtonsEnabledWhenNothingInFlight ==
    (Mounted /\ InFlight = 0) => ~loading /\ ~sentLogLoading

\* list without the emails whose id is in ids
Removed(list, ids) == SelectSeq(list, LAMBDA e : e.id \notin ids)

\* C2 as stated: when the analyze request of an analyzeEmails invocation fails,
\* emails is what it was before the invocation, the error slot holds
\* "Failed to analyze emails." and loading is false.
C2_FailedAnalyzeRestoresEmails ==
    [][ \A r \in Requests("analyze"), d \in AnalyzeResponses :
           analyzeEmails_settled(r, "reject", d) =>
              /\ emails' = r.emails
              /\ error' = MsgAnalyzeFailed
              /\ ~loading' ]_vars

\* C2 as amended: when the analyze request of an analyzeEmails invocation
\* fails, the failure leaves emails as it was when the failure arrived, which is
\* its value before the invocation without the emails whose approval succeeded
\* meanwhile; the error slot holds "Failed to analyze emails." and loading is
\* false.
C2_FailedAnalyzeKeepsEmails ==
    [][ \A r \in Requests("analyze"), d \in AnalyzeResponses :
           analyzeEmails_settled(r, "reject", d) =>
              /\ emails' = emails
              /\ \E ids \in SUBSET approved : emails' = Removed(r.emails, ids)
              /\ error' = MsgAnalyzeFailed
              /\ ~loading' ]_vars

\* C2 happens: an analysis has failed while emails of an earlier one are listed
C2_Witness ==
    Mounted /\ error = MsgAnalyzeFailed /\ ~loading /\ emails # <<>> /\ Requests("analyze") = {}

\* the ids of the emails shown in the three buckets
BucketIds == {e.id : e \in Range(urgentEmails) \cup Range(normalEmails) \cup Range(lowEmails)}

\* C5 as stated: once an approve request for email id X has succeeded, X is in
\* no bucket and stays out of them, and the modal is closed when the timer
\* scheduled by that success fires.
C5_ApprovedStaysAbsent ==
    [][ /\ Mounted' => \A x \in approved' : x \notin BucketIds'
        /\ (closeTimerFires /\ Mounted) => ~modalOpen' ]_vars

\* C5 as amended: when an approve request for email id X succeeds, X is in no
\* bucket and a close timer is scheduled; X stays out of the buckets until the
\* response of an analyze request replaces the collection; and the modal is
\* closed when the timer fires.
C5_ApprovedAbsentUntilAnalysis ==
    [][ /\ \A r \in Requests("approve"), d \in ApproveResponses :
              approveAndSend_settled(r, "ok", d) =>
                 r.email_id \notin BucketIds' /\ timers' = timers + 1
        /\ (Mounted /\ Mounted') =>
              \A x \in approved :
                 (x \notin BucketIds /\ x \in BucketIds') =>
                    \E r \in Requests("analyze"), d \in AnalyzeResponses :
                       analyzeEmails_settled(r, "ok", d)
        /\ (closeTimerFires /\ Mounted) => ~modalOpen' ]_vars

\* C5 happens: an approval has succeeded, its email is gone and the modal closed
C5_Witness ==
    /\ Mounted
    /\ approved # {}
    /\ approved \cap BucketIds = {}
    /\ emails # <<>>
    /\ ~modalOpen /\ timers = 0

\* the state of the reply modal, read off the cells the modal renders
ModalState ==
    IF ~modalOpen THEN "closed"
    ELSE IF modalLoading THEN "opening"
    ELSE IF sentJustNow THEN "sent"
    ELSE IF approveStatus = MsgSending THEN "sending"
    ELSE IF approveStatus = MsgApproveFailed THEN "failed"
    ELSE "editable"

\* the transitions of the state machine as stated; failed is an editable state,
\* from which sending is entered again
StatedTransitions ==
    { <<"closed", "opening">>, <<"opening", "editable">>, <<"editable", "sending">>,
      <<"failed", "sending">>, <<"sending", "sent">>, <<"sending", "failed">>,
      <<"sent", "closed">> }

\* Close, the overlay and the close timer
ClosingTransitions ==
    { <<from, "closed">> : from \in {"opening", "editable", "sending", "sent", "failed"} }

\* an approve response that arrives after another click on Approve & send or
\* after the modal was opened again
LateResponseTransitions ==
    { <<from, to>> : from \in {"opening", "editable", "failed"}, to \in {"sent", "failed"} }

\* a Suggest reply button of the page activated from the keyboard while the
\* modal is open: the modal goes back to loading
ReopenTransitions ==
    { <<from, "opening">> : from \in {"editable", "sending", "sent", "failed"} }

ApproveSucceeds ==
    \E r \in Requests("approve"), d \in ApproveResponses : approveAndSend_settled(r, "ok", d)
ApproveFails ==
    \E r \in Requests("approve"), d \in ApproveResponses :
        approveAndSend_settled(r, "reject", d)

\* C6 as stated: the modal moves only along closed -> opening -> editable ->
\* sending -> sent | failed; sent is followed by the modal closing and failed
\* leaves it open and editable; no other transition is reachable.
C6_OnlyStatedTransitions ==
    [][ /\ ModalState' # ModalState => <<ModalState, ModalState'>> \in StatedTransitions
        /\ ApproveSucceeds => timers' = timers + 1
        /\ (closeTimerFires /\ Mounted) => ~modalOpen'
        /\ ApproveFails => modalOpen' = modalOpen ]_vars

\* C6 as amended: the modal moves along closed -> opening -> editable ->
\* sending -> sent | failed, back from failed to sending on a retry, from every
\* open state to closed (Close, the overlay, a close timer), and from opening,
\* editable or failed to sent or failed when an approve response arrives late,
\* and from every other open state back to opening when Suggest reply is invoked
\* while the modal is open; a success schedules the close timer, whose firing
\* closes the modal, and a failure leaves modalOpen as it is.  No other
\* transition is reachable.
C6_ModalTransitions ==
    [][ /\ ModalState' # ModalState =>
              <<ModalState, ModalState'>> \in
                 StatedTransitions \cup ClosingTransitions \cup LateResponseTransitions
                    \cup ReopenTransitions
        /\ ApproveSucceeds => timers' = timers + 1
        /\ (closeTimerFires /\ Mounted) => ~modalOpen'
        /\ ApproveFails => modalOpen' = modalOpen ]_vars

\* C6 happens: the modal went through opening, editable and sending and is in
\* sent with its close timer scheduled
C6_Witness == ModalState = "sent" /\ approveStatus # MsgApproveFailed /\ timers > 0

\* a step that posts an approve request
ApprovePosted ==
    \E r \in BagToSet(pending') :
        r.kind = "approve" /\ CopiesIn(r, pending') > CopiesIn(r, pending)

\* C7: an approve request is posted only from a state in which the modal is
\* not loading, the draft has a non-whitespace character, sentJustNow is false
\* and modalEmailId is not null; from no other state is one posted.
C7_ApprovePostedOnlyWhenEnabled ==
    [][ ApprovePosted =>
           /\ ~modalLoading
           /\ Trim(modalDraft) # <<>>
           /\ ~sentJustNow
           /\ modalEmailId # NoEmailId ]_vars

\* C7 happens: an approve request is in flight
C7_Witness == Requests("approve") # {}

\* C8 as stated: when the approve request fails approveStatus is the failure
\* message, emails is unchanged, sentJustNow is still false, no close timer is
\* scheduled, modalOpen and modalDraft are unchanged and approve is enabled
\* again for a retry.
C8_FailedApproveReenables ==
    [][ ApproveFails =>
           /\ approveStatus' = MsgApproveFailed
           /\ emails' = emails
           /\ ~sentJustNow'
           /\ timers' = timers
           /\ modalOpen' = modalOpen
           /\ modalDraft' = modalDraft
           /\ ApproveClickable' ]_vars

\* C8 as amended: when the approve request fails approveStatus is the failure
\* message; emails, sentJustNow, modalOpen and modalDraft are as they were when
\* the failure arrived and no close timer is scheduled; approve is enabled for
\* a retry with the same draft if it was enabled when the failure arrived.
C8_FailedApproveChangesOnlyStatus ==
    [][ ApproveFails =>
           /\ approveStatus' = MsgApproveFailed
           /\ emails' = emails
           /\ sentJustNow' = sentJustNow
           /\ timers' = timers
           /\ modalOpen' = modalOpen
           /\ modalDraft' = modalDraft
           /\ ApproveClickable => ApproveClickable' ]_vars

\* C8 happens: an approve has failed and the modal is open for a retry
C8_Witness == approveStatus = MsgApproveFailed /\ ApproveClickable /\ Requests("approve") = {}

RecognizedUrgencies == {"urgent", "normal", "low"}

\* C9: the urgent, normal and low buckets are pairwise disjoint, together they
\* hold exactly the emails whose urgency is "urgent", "normal" or "low", each
\* once, and an email with another urgency is in no bucket.
C9_BucketsPartitionRecognized ==
    Mounted =>
    LET U == Range(urgentEmails)
        N == Range(normalEmails)
        L == Range(lowEmails)
    IN  /\ U \cap N = {} /\ U \cap L = {} /\ N \cap L = {}
        /\ U \cup N \cup L = {e \in Range(emails) : e.urgency \in RecognizedUrgencies}
        /\ Len(urgentEmails) + Len(normalEmails) + Len(lowEmails)
             = Cardinality({i \in 1..Len(emails) : emails[i].urgency \in RecognizedUrgencies})
        /\ \A e \in Range(emails) :
              e.urgency \notin RecognizedUrgencies => e \notin U \cup N \cup L

\* C9 happens: every bucket holds an email and one email has another urgency
C9_Witness ==
    /\ Mounted
    /\ urgentEmails # <<>> /\ normalEmails # <<>> /\ lowEmails # <<>>
    /\ \E e \in Range(emails) : e.urgency \notin RecognizedUrgencies

\* C10: in the later variant lastAnalyzedText is the raw text of the most recent
\* analysis that succeeded, the empty string before any has (so the clear
\* request, sent when the text differs from it, is sent exactly when the text
\* differs from the last successfully analysed one): when an analyzeEmails
\* invocation ends with success lastAnalyzedText is its text, and when it ends
\* with a failed analysis lastAnalyzedText is what it was at the invocation.
C10_LastAnalyzedIsLastSuccess ==
    [][ variant = "later" =>
          \A r \in Requests("analyze"), d \in AnalyzeResponses :
             /\ analyzeEmails_settled(r, "ok", d) => lastAnalyzedText' = r.rawText
             /\ analyzeEmails_settled(r, "reject", d) =>
                   lastAnalyzedText' = r.lastAnalyzedText ]_vars


\* the requests a step sends: those in flight after it that were not before
SentBy(kind) ==
    {r \in BagToSet(pending') : r.kind = kind /\ CopiesIn(r, pending') > CopiesIn(r, pending)}

\* C11: in the earlier variant analyzeEmails invoked with an empty or
\* whitespace-only text sends no request, sets the error slot to the validation
\* message and leaves emails, followUp, sentLog, sentLogOpen and loading as they
\* were, loading being false; with any other text it sends exactly one analyze
\* request.
C11_BlankTextIsRejected ==
    [][ (analyzeEmailsEarlier /\ rawText # UndefinedText) =>
          IF Trim(rawText) = <<>>
          THEN /\ pending' = pending
               /\ error' = MsgValidation
               /\ UNCHANGED <<emails, followUp, sentLog, sentLogOpen, loading>>
               /\ ~loading'
          ELSE /\ BagCardinality(pending') = BagCardinality(pending) + 1
               /\ \E r \in SentBy("analyze") :
                     /\ SentBy("analyze") = {r}
                     /\ CopiesIn(r, pending') = CopiesIn(r, pending) + 1
                     /\ r.rawText = rawText ]_vars

\* C11 happens: a whitespace-only text was refused while emails are listed
C11_Witness ==
    /\ variant = "earlier" /\ Mounted
    /\ rawText # <<>> /\ Trim(rawText) = <<>>
    /\ error = MsgValidation
    /\ emails # <<>> /\ InFlight = 0


\* a request made by loadDemo fails: the clear request of the later variant
\* rejects or is not OK, or the demo fetch rejects
DemoFails(r) ==
    \/ \E o \in FailedOutcomes : loadDemo_clearSettled(r, o)
    \/ \E d \in DemoResponses : loadDemo_demoSettled(r, "reject", d)

\* C12 as stated: when a request made by loadDemo fails, rawText is what it
\* was before the invocation and the error slot holds "Failed to load demo
\* emails."; on success rawText is the returned raw_text.
C12_FailedDemoRestoresText ==
    [][ \A r \in BagToSet(pending) :
          /\ DemoFails(r) => rawText' = r.rawText /\ error' = MsgDemoFailed
          /\ \A d \in DemoResponses :
                loadDemo_demoSettled(r, "ok", d) => rawText' = RawTextOf(d) ]_vars

\* C12 as amended: when a request made by loadDemo fails, the failure leaves
\* rawText as it was when the failure arrived (what the user typed or another
\* demo load put there while the request was in flight is kept) and the error
\* slot holds "Failed to load demo emails."; on success rawText is the returned
\* raw_text and the error slot is left alone.
C12_FailedDemoKeepsText ==
    [][ \A r \in BagToSet(pending) :
          /\ DemoFails(r) => rawText' = rawText /\ error' = MsgDemoFailed
          /\ \A d \in DemoResponses :
                loadDemo_demoSettled(r, "ok", d) =>
                   rawText' = RawTextOf(d) /\ error' = error ]_vars

\* C12 happens: a demo load has failed and the text typed before is still there
C12_Witness ==
    error = MsgDemoFailed /\ rawText = <<" ">> /\ Requests("demo") = {}
       /\ Requests("demoClear") = {}


\* C20: clearSentLog closes the outbox panel at invocation, before its request
\* ends and whatever the outcome; on success sentLog becomes empty; on failure
\* sentLog is left as it is and the error slot holds "Failed to clear outbox.".
\* A clear request of the panel is sent only while the panel is open and sentLog
\* is not empty.
C20_ClearClosesPanelFirst ==
    [][ /\ clearSentLog =>
              /\ sentLogOpen /\ sentLog # <<>>
              /\ ~sentLogOpen' /\ sentLog' = sentLog
              /\ Cardinality(SentBy("clear")) = 1
              /\ BagCardinality(pending') = BagCardinality(pending) + 1
        /\ SentBy("clear") # {} => sentLogOpen /\ sentLog # <<>>
        /\ \A r \in Requests("clear") :
              /\ clearSentLog_settled(r, "ok") =>
                    sentLog' = <<>> /\ sentLogOpen' = sentLogOpen /\ error' = error
              /\ \A o \in FailedOutcomes :
                    clearSentLog_settled(r, o) =>
                       /\ sentLog' = sentLog /\ sentLogOpen' = sentLogOpen
                       /\ error' = MsgClearFailed ]_vars

\* C20 happens: a clear has failed, the panel is closed and the mirror is kept
C20_Witness ==
    error = MsgClearFailed /\ ~sentLogOpen /\ sentLog # <<>> /\ Requests("clear") = {}


\* C14: cleanFormatting is idempotent: for every text of letters, spaces, tabs,
\* line feeds and carriage returns, cleaning the cleaned text gives the cleaned
\* text again.
C14_CleanIsIdempotent == CleanText(CleanText(rawText)) = CleanText(rawText)

\* C14 happens: a text with a run of three line feeds between its two
\* letters, which cleaning shortens to one line feed
C14_Witness ==
    /\ \E i \in 2..(Len(rawText) - 3) :
          /\ rawText[i - 1] = "a" /\ rawText[i + 3] = "b"
          /\ rawText[i] = "\n" /\ rawText[i + 1] = "\n" /\ rawText[i + 2] = "\n"
    /\ CleanText(rawText) = <<"a", "\n", "b">>

\* the elements of s at the indices in keep, in order
AtIndices(s, keep) ==
    [j \in 1..Cardinality(keep) |->
        s[CHOOSE i \in keep : Cardinality({k \in keep : k <= i}) = j]]

\* s with every maximal run of at least two line feeds replaced by one
OneLineFeedPerRun(s) ==
    AtIndices(s, {i \in 1..Len(s) : ~(s[i] = "\n" /\ i > 1 /\ s[i - 1] = "\n")})

\* s with every maximal run of spaces and tabs replaced by one space
OneSpacePerRun(s) ==
    LET blank == {" ", "\t"}
        t == [i \in 1..Len(s) |-> IF s[i] \in blank THEN " " ELSE s[i]]
    IN  AtIndices(t, {i \in 1..Len(s) : ~(s[i] \in blank /\ i > 1 /\ s[i - 1] \in blank)})

\* s from its first to its last non-whitespace character
Trimmed(s) ==
    LET solid == {i \in 1..Len(s) : s[i] \notin WhitespaceChars} IN
    IF solid = {} THEN <<>>
    ELSE SubSeq(s, CHOOSE i \in solid : \A j \in solid : i <= j,
                   CHOOSE i \in solid : \A j \in solid : j <= i)

NonWhitespace(s) == SelectSeq(s, LAMBDA c : c \notin WhitespaceChars)

\* C15: cleanFormatting returns the text got by replacing each maximal run of
\* two or more line feeds with one line feed, then each maximal run of spaces
\* and tabs with one space, then trimming; the result has no two adjacent line
\* feeds, no tab, no two adjacent spaces, no leading or trailing whitespace, and
\* keeps the non-whitespace characters in order; "a\n\n\nb   c" becomes "a\nb c".
C15_CleanCollapsesAndTrims ==
    LET out == CleanText(rawText) IN
    /\ out = Trimmed(OneSpacePerRun(OneLineFeedPerRun(rawText)))
    /\ \A i \in 1..(Len(out) - 1) :
          /\ ~(out[i] = "\n" /\ out[i + 1] = "\n")
          /\ ~(out[i] = " " /\ out[i + 1] = " ")
    /\ "\t" \notin Range(out)
    /\ out # <<>> => out[1] \notin WhitespaceChars /\ out[Len(out)] \notin WhitespaceChars
    /\ NonWhitespace(out) = NonWhitespace(rawText)
    /\ CleanText(<<"a", "\n", "\n", "\n", "b", " ", " ", " ", "c">>)
          = <<"a", "\n", "b", " ", "c">>

\* C15 happens: a text with a run of line feeds and a tab between two
\* different letters, cleaned to the letters with one line feed and one space
C15_Witness ==
    /\ Len(rawText) = 5
    /\ rawText[2] = "\n" /\ rawText[3] = "\n" /\ rawText[4] = "\t"
    /\ NonWhitespace(rawText) = <<"b", "a">>
    /\ CleanText(rawText) = <<"b", "\n", " ", "a">>


\* the draft the modal is to show for a response body
ShownDraft(d) ==
    CASE "draft" \in DOMAIN d /\ Len(d.draft) > 0 -> d.draft
      [] OTHER -> IF "message" \in DOMAIN d THEN d.message ELSE NoDraftText

\* C16: suggestReply(e) at once opens the modal in the loading state (modalOpen,
\* modalLoading, empty modalDraft, modalEmailId = e.id, approveStatus null,
\* sentJustNow false); when its request resolves modalDraft is the response's
\* draft if present and not empty, else the response's message, else "No draft
\* available."; when it fails modalDraft is "Failed to get reply suggestion."
\* and the error slot is not written; modalLoading is false in all these cases.
C16_SuggestFillsDraft ==
    [][ /\ \A e \in Range(emails) :
              suggestReply(e) =>
                 /\ modalOpen' /\ modalLoading' /\ modalDraft' = <<>>
                 /\ modalEmailId' = <<e.id>> /\ approveStatus' = Null /\ ~sentJustNow'
        /\ \A r \in Requests("suggest"), d \in SuggestResponses :
              /\ suggestReply_settled(r, "ok", d) =>
                    modalDraft' = ShownDraft(d) /\ ~modalLoading' /\ error' = error
              /\ suggestReply_settled(r, "reject", d) =>
                    modalDraft' = SuggestFailedText /\ ~modalLoading' /\ error' = error ]_vars

\* C16 happens: a response without a draft put its message into the modal
C16_Witness ==
    /\ modalOpen /\ ~modalLoading /\ modalDraft = <<"m">>
    /\ error = Null /\ Requests("suggest") = {}


\* C17: in the later variant the requests of one handler invocation follow one
\* another: loadDemo sends the demo fetch only when its clear request has
\* resolved with an OK status, analyzeEmails with a text other than
\* lastAnalyzedText sends the analyze request only when its clear request has
\* resolved with an OK status, and a clear request that fails is followed by no
\* request.
C17_SecondRequestAfterClearOk ==
    [][ variant = "later" =>
          /\ loadDemo => SentBy("demo") = {} /\ Cardinality(SentBy("demoClear")) = 1
          /\ SentBy("demo") # {} =>
                \E r \in Requests("demoClear") :
                   loadDemo_clearSettled(r, "ok") \/ settledUnmounted(r, "ok")
          /\ (analyzeEmails /\ rawText # lastAnalyzedText) =>
                SentBy("analyze") = {} /\ Cardinality(SentBy("analyzeClear")) = 1
          /\ SentBy("analyze") # {} =>
                \/ analyzeEmails /\ rawText = lastAnalyzedText
                \/ \E r \in Requests("analyzeClear") :
                      analyzeEmails_clearSettled(r, "ok") \/ settledUnmounted(r, "ok")
          /\ \A r \in Requests("demoClear") \cup Requests("analyzeClear"),
                o \in FailedOutcomes :
                (\/ loadDemo_clearSettled(r, o)
                 \/ analyzeEmails_clearSettled(r, o)
                 \/ settledUnmounted(r, o)) =>
                   pending' = Settle(pending, r) ]_vars

\* C17 happens: an analyze request is in flight that was sent after the clear
\* request of its invocation
C17_Witness ==
    /\ variant = "later"
    /\ \E r \in Requests("analyze") : r.rawText # r.lastAnalyzedText
    /\ Requests("analyzeClear") = {}


C19_RefreshIffPanelOpenNow ==
    [][ variant = "later" =>
          \A r \in Requests("approve"), d \in ApproveResponses :
             approveAndSend_settled(r, "ok", d) =>
                (SentBy("sent") # {} <=> sentLogOpen) ]_vars


\* C21: an email is not sent twice in one modal session: the approve action is
\* not invocable while an approve request of that session is still pending.
\* approveStatus is "Sending..." from a click on Approve & send until an approve
\* request ends or the modal is opened again, so while it is, the request of a
\* click made in the session that is open is in flight; no approve request is
\* posted from such a state.
C21_NoApproveWhileSending ==
    [][ ApprovePosted => ~(modalOpen /\ approveStatus = MsgSending) ]_vars


\* C22: the "already sent" state belongs to the modal session that is open:
\* whenever the modal is open with sentJustNow true (approve disabled, label
\* "Sent"), an approve request for the modalEmailId it shows has succeeded; also
\* when an approve request for email A resolves after the modal was closed and
\* opened again for email B.
C22_SentMeansShownEmailApproved ==
    (Mounted /\ modalOpen /\ sentJustNow) =>
       modalEmailId # NoEmailId /\ modalEmailId[1] \in approved


\* C23: the close timer scheduled by a successful approve closes only the modal
\* session in which that approval happened.  sentJustNow is false in an open
\* modal exactly when no approve request has succeeded since it was opened, so
\* every timer still scheduled then was set in an earlier session: its firing
\* leaves the modal open.
C23_TimerSparesNewSession ==
    [][ (closeTimerFires /\ Mounted /\ modalOpen /\ ~sentJustNow) => modalOpen' ]_vars


\* the ids of the emails of a list
Ids(list) == {e.id : e \in Range(list)}

\* C24: an email removed by a successful approve is not put back by an analysis
\* submitted before the approval.  While an analyze request is in flight emails
\* changes only by the removal of an approved email, so an approved id that was
\* listed when the request was submitted and is not listed now was removed
\* while the request was in flight: when the request ends that id is still in
\* no bucket.
C24_StaleAnalysisKeepsRemoval ==
    [][ \A r \in Requests("analyze"), o \in UncheckedOutcomes, d \in AnalyzeResponses :
          (analyzeEmails_settled(r, o, d) /\ Mounted') =>
             \A x \in approved :
                (x \in Ids(r.emails) /\ x \notin BucketIds) => x \notin BucketIds' ]_vars


\* C25: while the suggest request for the modalEmailId the modal shows is in
\* flight, modalLoading is true, so that the draft textarea is not rendered and
\* approve is disabled; also when an older suggestReply invocation ends while a
\* newer one is pending.
C25_LoadingWhileSuggestInFlight ==
    (Mounted /\ modalOpen /\ \E r \in Requests("suggest") : <<r.email.id>> = modalEmailId)
       => modalLoading


\* C26: sentLogLoading is true in every state in which a request started by
\* loadSentLog (from the Outbox button or from approveAndSend) or by
\* clearSentLog is in flight, so that the Outbox button, disabled while
\* sentLogLoading, is not enabled while such a request is pending.
C26_LoadingWhileOutboxRequestInFlight ==
    (Mounted /\ (Requests("sent") # {} \/ Requests("clear") # {})) => sentLogLoading

====
